---- MODULE Spec2Model ----
(***************************************************************************)
(* Model of jacket-finder: the change-detection coordinator               *)
(* (JacketFinder::check_for_new_jackets), the scraper it drives            *)
(* (Scraper::search_jackets), the paginated site scraper                   *)
(* (MarrktScraper::search_jackets), the store (Database), the notifier     *)
(* (DiscordNotifier) and the process main loop with its cron scheduler.    *)
(*                                                                         *)
(* Strings are sequences of tokens (<<"/products/a", "?", "v=1">>), so     *)
(* that prefix tests, find('?'), truncate, trim, to_lowercase and          *)
(* contains are computed and not assumed.  An Option is a sequence of      *)
(* length 0 (None) or 1 (Some).                                            *)
(***************************************************************************)
EXTENDS Integers, Sequences, FiniteSets, TLC

VARIABLES
    site,       \* the origin server: page URL -> page (products, next href)
    epoch,      \* how many times the origin's content has changed so far
    db,         \* the jackets table: the set of stored ids (primary key)
    webhook,    \* DiscordNotifier.webhook_url is Some (TRUE) or None (FALSE)
    mainpc,     \* position of main(): "start", "eager", "sched"
    jobs,       \* one record per call of check_for_new_jackets(), in start order
    restarts,   \* how many times the process was shut down and started again
    m_pc,       \* MarrktScraper::search_jackets: "idle", "fetch", "sleep", "done"
    m_ti,       \* index into config.search_terms of the term being walked
    current_url,\* MarrktScraper::search_jackets: current_url
    page_num,   \* MarrktScraper::search_jackets: page_num
    m_all,      \* MarrktScraper::search_jackets: all_jackets (url -> Jacket)
    m_result,   \* what the call returned: [status, jackets]
    m_log,      \* history: the fetches and sleeps of the call, in order
    e_page,     \* a parsed result page: its product containers, in document order
    e_scraper,  \* whose product loop has run over e_page: "none", "Scraper", "MarrktScraper"
    e_out,      \* all_jackets after that loop (url -> Jacket)
    p_pc,       \* a MarrktScraper over a config: "idle", "new", "built", "fetch", "failed", "paged"
    p_config,   \* MarrktScraper.config: [search_terms, malformed]
    p_page,     \* the first page its search is served: [products, next]
    p_all,      \* all_jackets after that page (url -> Jacket)
    p_next      \* next_page_url after that page

vars == <<site, epoch, db, webhook, mainpc, jobs, restarts,
          m_pc, m_ti, current_url, page_num, m_all, m_result, m_log,
          e_page, e_scraper, e_out,
          p_pc, p_config, p_page, p_all, p_next>>

mainVars == <<site, epoch, db, webhook, mainpc, jobs, restarts>>
marrktVars == <<m_pc, m_ti, current_url, page_num, m_all, m_result, m_log>>
extractVars == <<e_page, e_scraper, e_out>>
profileVars == <<p_pc, p_config, p_page, p_all, p_next>>

----------------------------------------------------------------------------
(* Bounds of the model *)

\* calls of check_for_new_jackets() per behaviour (the eager one included)
MaxJobs == 3
\* changes of the origin's content per behaviour
MaxUpdates == 1
\* shutdowns followed by a fresh start of the process
MaxRestarts == 1

----------------------------------------------------------------------------
(* Options and strings *)

None == <<>>
Some(x) == <<x>>
IsSome(o) == Len(o) = 1
Get(o) == o[1]

\* str::starts_with("http")
StartsWithHttp(s) == Len(s) >= 1 /\ s[1] = "http"

\* str::starts_with("//")
StartsWithSlashSlash(s) == Len(s) >= 1 /\ s[1] = "//"

\* str::find('?'): the index of the first '?', 0 when there is none
FindQuery(s) ==
    IF \E i \in 1..Len(s) : s[i] = "?"
    THEN CHOOSE i \in 1..Len(s) : s[i] = "?" /\ \A k \in 1..(i - 1) : s[k] # "?"
    ELSE 0

\* String::truncate(query_start)
Truncate(s, n) == SubSeq(s, 1, n)

IsSpace(c) == c \in {" ", "\n"}

\* str::trim(): drop leading and trailing whitespace
Trim(s) ==
    IF \A i \in 1..Len(s) : IsSpace(s[i])
    THEN <<>>
    ELSE LET lo == CHOOSE i \in 1..Len(s) :
                       ~IsSpace(s[i]) /\ \A k \in 1..(i - 1) : IsSpace(s[k])
             hi == CHOOSE i \in 1..Len(s) :
                       ~IsSpace(s[i]) /\ \A k \in (i + 1)..Len(s) : IsSpace(s[k])
         IN  SubSeq(s, lo, hi)

LowerTok(c) ==
    CASE c = "N-1" -> "n-1"
      [] c = "Deck" -> "deck"
      [] c = "DECK" -> "deck"
      [] c = "Jacket" -> "jacket"
      [] c = "Buzz" -> "buzz"
      [] c = "Shirt" -> "shirt"
      [] c = "Unknown" -> "unknown"
      [] c = "Brand" -> "brand"
      [] c = "Item" -> "item"
      [] c = "Sold" -> "sold"
      [] c = "Out" -> "out"
      [] OTHER -> c

\* str::to_lowercase()
ToLowercase(s) == [i \in 1..Len(s) |-> LowerTok(s[i])]

\* str::contains(pat)
Contains(s, pat) ==
    \E i \in 1..(Len(s) - Len(pat) + 1) : SubSeq(s, i, i + Len(pat) - 1) = pat

\* urlencoding::encode
EncodeTok(c) == IF c = " " THEN "%20" ELSE c
UrlEncode(s) == [i \in 1..Len(s) |-> EncodeTok(s[i])]

\* md5::compute rendered as hex: a digest stands for the string it was
\* computed from (no two strings of the model share a digest).
Md5Hex(s) == <<"md5">> \o s

\* str::replace(tok, rep): every occurrence of the token is replaced
RECURSIVE Replace(_, _, _)
Replace(s, tok, rep) ==
    IF s = <<>> THEN <<>>
    ELSE (IF Head(s) = tok THEN rep ELSE <<Head(s)>>) \o Replace(Tail(s), tok, rep)

----------------------------------------------------------------------------
(* Configuration *)

\* "https://www.marrkt.com"
BASE_URL == <<"http", "s://www.marrkt.com">>

\* "https://www.marrkt.com/search?q={query}"
search_url_pattern == BASE_URL \o <<"/search", "?", "q=", "{query}">>

\* "Marrkt"
SITE_NAME == <<"Marrkt">>

\* vec!["n-1 deck jacket", "deck jacket"]
search_terms == << <<"n-1", " ", "deck", " ", "jacket">>, <<"deck", " ", "jacket">> >>

UNKNOWN_ITEM == <<"Unknown", " ", "Item">>
UNKNOWN_BRAND == <<"Unknown", " ", "Brand">>
PRICE_NOT_FOUND == <<"Price", " ", "not", " ", "found">>
SOLD_OUT == <<"Sold", " ", "Out">>

\* the page-count ceiling of one term's walk
MAX_PAGES == 50

\* Scraper::search_jackets: the URL fetched for a search term
ScraperSearchUrl(term) == BASE_URL \o <<"/search", "?", "q=">> \o UrlEncode(term)

\* WebsiteScraper::build_search_url
build_search_url(term) == Replace(search_url_pattern, "{query}", UrlEncode(term))

----------------------------------------------------------------------------
(* The origin server's pages *)

\* A product container of a result page: the nodes its selectors find.
\*   link  : the href of the first link node, or None
\*   name  : the text of the first title node, or None
\*   brand : the text of the first brand node, or None
\*   sold  : the texts of the nodes the sold-out selector matches
\*   price : the text of the first price node, or None
\*   img   : the first image node's data-src and src attributes, or None
Product(link, name, brand, sold, price, img) ==
    [link |-> link, name |-> name, brand |-> brand, sold |-> sold,
     price |-> price, img |-> img]

Img(data_src, src) == Some([data_src |-> data_src, src |-> src])

pA == Product(Some(<<"/products/a">>), Some(<<"N-1", " ", "Deck", " ", "Jacket">>),
              Some(<<"Buzz">>), <<>>, Some(<<"EUR349">>),
              Img(None, Some(<<"//", "cdn.x/a_", "{width}", ".jpg">>)))

\* the same listing as pA, linked with a query string and another price
pAq == Product(Some(<<"/products/a", "?", "v=1">>),
               Some(<<"N-1", " ", "Deck", " ", "Jacket">>),
               Some(<<"Buzz">>), <<>>, Some(<<"EUR299">>),
               Img(Some(<<"/img/a.jpg">>), Some(<<"/img/lazy.gif">>)))

\* an absolute link, no brand node, text to trim
pB == Product(Some(BASE_URL \o <<"/products/b">>),
              Some(<<" ", "DECK", " ", "Jacket", "\n">>),
              None, <<>>, None, None)

\* a listing whose title matches no search term
pC == Product(Some(<<"/products/c">>), Some(<<"Shirt">>), Some(<<"Buzz">>),
              <<>>, Some(<<"EUR50">>), Img(None, None))

\* a sold-out listing whose title matches
pS == Product(Some(<<"/products/s">>), Some(<<"Deck", " ", "Jacket">>),
              Some(<<"Buzz">>), << <<"In", " ", "stock">>, <<" ", "Sold", " ", "Out", " ">> >>,
              Some(<<"EUR10">>), None)

\* a container without a link
pN == Product(None, Some(<<"Deck", " ", "Jacket">>), None, <<>>, None, None)

Page(products, next) == [products |-> products, next |-> next]

----------------------------------------------------------------------------
(* Scraper::search_jackets (src/scraper/mod.rs): extraction of one page *)

Jacket(id, title, price, url, image_url) ==
    [id |-> id, title |-> title, price |-> price, url |-> url, image_url |-> image_url]

\* the text of the first node a selector finds, trimmed, or a sentinel
TextOr(node, sentinel) == IF IsSome(node) THEN Trim(Get(node)) ELSE sentinel

\* mutant: the standard source attribute is preferred
ImageSrcStandardFirst(p) ==
    IF ~IsSome(p.img) THEN None
    ELSE IF IsSome(Get(p.img).src) THEN Get(p.img).src
    ELSE Get(p.img).data_src

\* attr("data-src").or_else(|| attr("src")) of the first image node
ImageSrc(p) ==
    IF ~IsSome(p.img) THEN None
    ELSE IF IsSome(Get(p.img).data_src) THEN Get(p.img).data_src
    ELSE Get(p.img).src

S_Url(href) == IF StartsWithHttp(href) THEN href ELSE BASE_URL \o href

S_Title(p) == TextOr(p.brand, UNKNOWN_BRAND) \o <<" ", "-", " ">> \o TextOr(p.name, UNKNOWN_ITEM)

\* mutant: the match filter lets every candidate through
S_MatchesAlways(title) == TRUE

S_Matches(title) ==
    \E i \in 1..Len(search_terms) :
        Contains(ToLowercase(title), ToLowercase(search_terms[i]))

S_ImageUrl(p) ==
    LET src == ImageSrc(p)
    IN  IF ~IsSome(src) THEN None
        ELSE LET u == Get(src)
                 processed_url == IF StartsWithHttp(u) THEN u
                                  ELSE IF StartsWithSlashSlash(u) THEN <<"http", "s:">> \o u
                                  ELSE BASE_URL \o u
             IN  Some(Replace(processed_url, "{width}", <<"800">>))

S_Id(url) == Md5Hex(url)

\* the body of `for product in document.select(&product_selector)`
S_Product(all, p) ==
    IF ~IsSome(p.link) THEN all
    ELSE LET url == S_Url(Get(p.link))
             title == S_Title(p)
         IN  IF url \in DOMAIN all THEN all
             ELSE IF ~S_Matches(title) THEN all
             ELSE LET jacket == Jacket(S_Id(url), title, TextOr(p.price, PRICE_NOT_FOUND),
                                       url, S_ImageUrl(p))
                  IN  [u \in (DOMAIN all) \cup {url} |->
                          IF u = url THEN jacket ELSE all[u]]

RECURSIVE S_Page(_, _)
S_Page(all, products) ==
    IF products = <<>> THEN all
    ELSE S_Page(S_Product(all, Head(products)), Tail(products))

\* all_jackets.into_values(): the jackets, in no particular order
IntoValues(all) == {all[u] : u \in DOMAIN all}

EmptyMap == [u \in {} |-> {}]

----------------------------------------------------------------------------
(* The origin's content *)

S1 == ScraperSearchUrl(search_terms[1])
S2 == ScraperSearchUrl(search_terms[2])
P2 == BASE_URL \o <<"/search", "?", "page=2">>

PageUrls == {S1, S2, P2}

\* what a search URL may serve while the coordinator polls it
L0 == <<pC, pN>>
L1 == <<pA, pC>>
L2 == <<pB, pA>>


\* the contents the two search URLs go through: nothing that matches, then
\* listing A, then A and B (A under both terms), then B and A under the
\* first term only, then nothing again
MainContents == << <<L0, L0>>, <<L0, L1>>, <<L1, L2>>, <<L2, L0>> >>

MainSite(i) ==
    [u \in PageUrls |-> IF u = S1 THEN Page(MainContents[i][1], None)
                        ELSE IF u = S2 THEN Page(MainContents[i][2], None)
                        ELSE Page(<<>>, None)]

MainSites == {MainSite(i) : i \in 1..Len(MainContents)}

\* the outcome of client.get(url).send(): a connection failure, a
\* non-success status, or a success status with the page's body
FetchOutcomes == {"conn", "status", "ok"}

----------------------------------------------------------------------------
(* JacketFinder::check_for_new_jackets (src/jacket_finder.rs) *)

NewJob(kind) ==
    [kind |-> kind,             \* "eager" (main.rs:105) or "scheduled" (main.rs:117)
     pc |-> "search",           \* "search", "read_ids", "loop", "notify", "done"
     ti |-> 1,                  \* index of the search term to fetch next
     all_jackets |-> EmptyMap,  \* Scraper::search_jackets: all_jackets
     found |-> {},              \* history: what search_jackets() returned
     jackets |-> {},            \* the jackets the for loop has not reached yet
     existing_ids |-> {},
     read |-> FALSE,            \* history: existing_ids has been read
     search_failed |-> FALSE,   \* history: a fetch of search_jackets() failed
     dropped |-> {},            \* history: the urls collected when that fetch failed
     cur |-> None,              \* the jacket saved and not yet notified
     new_jackets |-> 0,
     result |-> "none",         \* "none", "ok", "err", "killed"
     failed |-> "none",         \* history: the call that returned the error
     log |-> <<>>,              \* history: save_jacket / send_notification calls
     epochs |-> {},             \* history: the content epochs its fetches saw
     after |-> {i \in 1..Len(jobs) : jobs[i].pc = "done"}] \* history: jobs over at its start

Fail(job, what) == [job EXCEPT !.pc = "done", !.result = "err", !.failed = what]

\* mutant: the membership test is left out
IsNewAlways(job, jacket) == TRUE

\* `!existing_ids.contains(&jacket.id)`
IsNew(job, jacket) == jacket.id \notin job.existing_ids

\* the for loop moves on: to the next new jacket, or past the loop to Ok(())
NextIteration(job) ==
    IF \E jk \in job.jackets : IsNew(job, jk)
    THEN [job EXCEPT !.pc = "loop"]
    ELSE [job EXCEPT !.pc = "done", !.result = "ok", !.jackets = {}]

\* mutant: a failed fetch is logged and the walk goes on with the next term
ScraperFetchedSwallow(job, outcome) ==
    LET url == ScraperSearchUrl(search_terms[job.ti])
        all == IF outcome = "ok" THEN S_Page(job.all_jackets, site[url].products)
               ELSE job.all_jackets
        seen == [job EXCEPT !.epochs = @ \cup {epoch},
                            !.search_failed = @ \/ outcome # "ok",
                            !.dropped = IF outcome # "ok" THEN DOMAIN job.all_jackets ELSE @]
    IN  IF job.ti < Len(search_terms)
        THEN [seen EXCEPT !.ti = @ + 1, !.all_jackets = all]
        ELSE [seen EXCEPT !.ti = @ + 1, !.all_jackets = EmptyMap, !.pc = "read_ids",
                          !.found = IntoValues(all), !.jackets = IntoValues(all)]

\* mutant: a failed fetch ends the walk and the call returns what it has
ScraperFetchedPartial(job, outcome) ==
    LET url == ScraperSearchUrl(search_terms[job.ti])
        all == S_Page(job.all_jackets, site[url].products)
        seen == [job EXCEPT !.epochs = @ \cup {epoch}]
    IN  IF outcome # "ok"
        THEN [seen EXCEPT !.all_jackets = EmptyMap, !.search_failed = TRUE,
                          !.dropped = DOMAIN job.all_jackets, !.pc = "read_ids",
                          !.found = IntoValues(job.all_jackets),
                          !.jackets = IntoValues(job.all_jackets)]
        ELSE IF job.ti < Len(search_terms)
        THEN [seen EXCEPT !.ti = @ + 1, !.all_jackets = all]
        ELSE [seen EXCEPT !.ti = @ + 1, !.all_jackets = EmptyMap, !.pc = "read_ids",
                          !.found = IntoValues(all), !.jackets = IntoValues(all)]

\* Scraper::search_jackets, one search term: fetch, check the status, extract;
\* and the `?` of check_for_new_jackets on its error
ScraperFetched(job, outcome) ==
    LET url == ScraperSearchUrl(search_terms[job.ti])
        all == S_Page(job.all_jackets, site[url].products)
        seen == [job EXCEPT !.epochs = @ \cup {epoch}]
    IN  IF outcome # "ok"
        THEN Fail([seen EXCEPT !.all_jackets = EmptyMap, !.search_failed = TRUE,
                               !.dropped = DOMAIN job.all_jackets], "search")
        ELSE IF job.ti < Len(search_terms)
        THEN [seen EXCEPT !.ti = @ + 1, !.all_jackets = all]
        ELSE [seen EXCEPT !.ti = @ + 1, !.all_jackets = EmptyMap, !.pc = "read_ids",
                          !.found = IntoValues(all), !.jackets = IntoValues(all)]

SearchFetch(j) ==
    /\ jobs[j].pc = "search"
    /\ \E outcome \in FetchOutcomes :
           jobs' = [jobs EXCEPT ![j] = ScraperFetched(jobs[j], outcome)]
    /\ UNCHANGED <<site, epoch, db, webhook, mainpc, restarts, marrktVars, extractVars, profileVars>>

\* mutant: the query returns no row
SelectNone(table) == {}

\* SELECT id FROM jackets, collected into a HashSet
SelectIds(table) == {id \in table : TRUE}

\* mutant: the write is lost
InsertLost(table, id) == table

\* INSERT INTO jackets: the row is added to the table
Insert(table, id) == table \cup {id}

\* Database::get_existing_jacket_ids, then the loop up to its first await
ExistingIdsRead(job, ok) ==
    IF ok THEN NextIteration([job EXCEPT !.existing_ids = SelectIds(db), !.read = TRUE])
    ELSE Fail(job, "read_ids")

GetExistingIds(j) ==
    /\ jobs[j].pc = "read_ids"
    /\ \E ok \in BOOLEAN :
           jobs' = [jobs EXCEPT ![j] = ExistingIdsRead(jobs[j], ok)]
    /\ UNCHANGED <<site, epoch, db, webhook, mainpc, restarts, marrktVars, extractVars, profileVars>>

\* mutant: the error of save_jacket is ignored and the notification is sent
SavedNotifyAnyway(job, jacket, ok) ==
    [job EXCEPT !.jackets = @ \ {jacket},
                !.log = Append(@, [op |-> "save", id |-> jacket.id,
                                   res |-> IF ok THEN "ok" ELSE "err"]),
                !.pc = "notify", !.cur = Some(jacket)]

\* mutant: the error of save_jacket is logged and the loop goes on
SavedSkipOnError(job, jacket, ok) ==
    LET logged == [job EXCEPT !.jackets = @ \ {jacket},
                              !.log = Append(@, [op |-> "save", id |-> jacket.id,
                                                 res |-> IF ok THEN "ok" ELSE "err"])]
    IN  IF ok THEN [logged EXCEPT !.pc = "notify", !.cur = Some(jacket)]
        ELSE IF \E jk \in logged.jackets : jk.id \notin logged.existing_ids
        THEN [logged EXCEPT !.pc = "loop"]
        ELSE [logged EXCEPT !.pc = "done", !.result = "ok", !.jackets = {}]

\* mutant: the loop does not move past a jacket it has saved
SavedKeepsJacket(job, jacket, ok) ==
    LET logged == [job EXCEPT !.log = Append(@, [op |-> "save", id |-> jacket.id,
                                                 res |-> IF ok THEN "ok" ELSE "err"])]
    IN  IF ok THEN [logged EXCEPT !.pc = "notify", !.cur = Some(jacket)]
        ELSE Fail([logged EXCEPT !.jackets = @ \ {jacket}], "save")

\* Database::save_jacket and the `?` after it: INSERT; the primary key
\* rejects a stored id
Saved(job, jacket, ok) ==
    LET logged == [job EXCEPT !.jackets = @ \ {jacket},
                              !.log = Append(@, [op |-> "save", id |-> jacket.id,
                                                 res |-> IF ok THEN "ok" ELSE "err"])]
    IN  IF ok THEN [logged EXCEPT !.pc = "notify", !.cur = Some(jacket)]
        ELSE Fail(logged, "save")

SaveJacket(j) ==
    /\ jobs[j].pc = "loop"
    /\ \E jacket \in jobs[j].jackets :
           /\ IsNew(jobs[j], jacket)
           /\ \E ok \in BOOLEAN :
                  /\ ok => jacket.id \notin db
                  /\ jobs' = [jobs EXCEPT ![j] = Saved(jobs[j], jacket, ok)]
                  /\ db' = IF ok THEN Insert(db, jacket.id) ELSE db
    /\ UNCHANGED <<site, epoch, webhook, mainpc, restarts, marrktVars, extractVars, profileVars>>

\* mutant: the POST is made whether or not a webhook is configured
NotifyOutcomesAlwaysPost == {"conn", "status", "ok"}

\* the outcome of send_notification: no webhook configured ("disabled"),
\* a connection failure, a non-success status, a success status
NotifyOutcomes == IF webhook THEN {"conn", "status", "ok"} ELSE {"disabled"}

\* mutant: a notification the webhook refused is sent a second time
NotifiedRetry(job, outcome) ==
    LET logged == [job EXCEPT !.cur = None,
                              !.log = Append(@, [op |-> "notify", id |-> Get(job.cur).id,
                                                 res |-> outcome])]
    IN  IF outcome = "conn" THEN Fail(logged, "notify")
        ELSE IF outcome = "status"
                /\ \A n \in 1..Len(job.log) :
                       ~(job.log[n].op = "notify" /\ job.log[n].id = Get(job.cur).id)
        THEN [logged EXCEPT !.cur = job.cur]
        ELSE NextIteration([logged EXCEPT !.new_jackets = @ + 1])

\* DiscordNotifier::send_notification and the `?` after it
Notified(job, outcome) ==
    LET logged == [job EXCEPT !.cur = None,
                              !.log = Append(@, [op |-> "notify", id |-> Get(job.cur).id,
                                                 res |-> outcome])]
    IN  IF outcome = "conn" THEN Fail(logged, "notify")
        ELSE NextIteration([logged EXCEPT !.new_jackets = @ + 1])

SendNotification(j) ==
    /\ jobs[j].pc = "notify"
    /\ \E outcome \in NotifyOutcomes :
           jobs' = [jobs EXCEPT ![j] = Notified(jobs[j], outcome)]
    /\ UNCHANGED <<site, epoch, db, webhook, mainpc, restarts, marrktVars, extractVars, profileVars>>

----------------------------------------------------------------------------
(* main (src/main.rs) and the environment *)

\* main.rs:105: the eager check, awaited by main
InitialCheck ==
    /\ mainpc = "start"
    /\ Len(jobs) < MaxJobs
    /\ jobs' = Append(jobs, NewJob("eager"))
    /\ mainpc' = "eager"
    /\ UNCHANGED <<site, epoch, db, webhook, restarts, marrktVars, extractVars, profileVars>>

\* mutant: the eager check is not awaited before the scheduler is started
SchedulerStartEarly ==
    /\ mainpc = "eager"
    /\ mainpc' = "sched"
    /\ UNCHANGED <<site, epoch, db, webhook, jobs, restarts, marrktVars, extractVars, profileVars>>

\* main.rs:105-125: the eager check has returned; the scheduler is started
SchedulerStart ==
    /\ mainpc = "eager"
    /\ jobs[Len(jobs)].pc = "done"
    /\ mainpc' = "sched"
    /\ UNCHANGED <<site, epoch, db, webhook, jobs, restarts, marrktVars, extractVars, profileVars>>

\* main.rs:114-121: the cron expression fires and the scheduler spawns the job
Tick ==
    /\ mainpc = "sched"
    /\ Len(jobs) < MaxJobs
    /\ jobs' = Append(jobs, NewJob("scheduled"))
    /\ UNCHANGED <<site, epoch, db, webhook, mainpc, restarts, marrktVars, extractVars, profileVars>>

Killed(job) ==
    IF job.pc = "done" THEN job
    ELSE [job EXCEPT !.pc = "done", !.result = "killed", !.jackets = {},
                     !.all_jackets = EmptyMap, !.cur = None]

\* the process is shut down (its tasks are dropped where they are) and
\* started again: only the database survives
Restart ==
    /\ mainpc # "start"
    /\ restarts < MaxRestarts
    /\ jobs' = [i \in 1..Len(jobs) |-> Killed(jobs[i])]
    /\ mainpc' = "start"
    /\ restarts' = restarts + 1
    /\ UNCHANGED <<site, epoch, db, webhook, marrktVars, extractVars, profileVars>>

\* the origin changes what its search pages serve
SiteUpdate ==
    /\ epoch < MaxUpdates
    /\ \E i \in 1..Len(MainContents) :
           /\ site = MainSite(i)
           /\ site' = MainSite((i % Len(MainContents)) + 1)
    /\ epoch' = epoch + 1
    /\ UNCHANGED <<db, webhook, mainpc, jobs, restarts, marrktVars, extractVars, profileVars>>

MarrktIdle ==
    /\ m_pc = "idle"
    /\ m_ti = 1
    /\ current_url = <<>>
    /\ page_num = 1
    /\ m_all = EmptyMap
    /\ m_result = [status |-> "none", jackets |-> {}]
    /\ m_log = <<>>

\* no page has been handed to a product loop on its own
ExtractIdle ==
    /\ e_page = <<>>
    /\ e_scraper = "none"
    /\ e_out = EmptyMap

\* ScraperConfig (src/traits.rs): the search terms, and the names of the
\* selector patterns of SiteSelectors that Selector::parse rejects
ScraperConfig(terms, malformed) == [search_terms |-> terms, malformed |-> malformed]

\* the config MarrktScraper::new builds: its patterns are well-formed
MarrktConfig == ScraperConfig(search_terms, {})

\* no scraper over another config is under consideration
ProfileIdle ==
    /\ p_pc = "idle"
    /\ p_config = MarrktConfig
    /\ p_page = Page(<<>>, None)
    /\ p_all = EmptyMap
    /\ p_next = None

Init ==
    /\ site \in MainSites
    /\ epoch = 0
    /\ db = {}
    /\ webhook \in BOOLEAN
    /\ mainpc = "start"
    /\ jobs = <<>>
    /\ restarts = 0
    /\ MarrktIdle
    /\ ExtractIdle
    /\ ProfileIdle

Next ==
    \/ InitialCheck
    \/ SchedulerStart
    \/ Tick
    \/ Restart
    \/ SiteUpdate
    \/ \E j \in 1..Len(jobs) : SearchFetch(j)
    \/ \E j \in 1..Len(jobs) : GetExistingIds(j)
    \/ \E j \in 1..Len(jobs) : SaveJacket(j)
    \/ \E j \in 1..Len(jobs) : SendNotification(j)

Spec == Init /\ [][Next]_vars

----------------------------------------------------------------------------
(* MarrktScraper::search_jackets (src/scrapers/marrkt.rs) *)

\* MarrktScraper::new: selectors.brand and selectors.sold_out_indicator are Some
brand_selector == TRUE
sold_out_selector == TRUE

M_Url(href) ==
    LET url == IF StartsWithHttp(href) THEN href ELSE BASE_URL \o href
        query_start == FindQuery(url)
    IN  IF query_start > 0 THEN Truncate(url, query_start - 1) ELSE url

M_Title(p) ==
    LET product_title == TextOr(p.name, UNKNOWN_ITEM)
        brand == IF brand_selector THEN TextOr(p.brand, UNKNOWN_BRAND) ELSE UNKNOWN_BRAND
    IN  IF brand = UNKNOWN_BRAND THEN product_title
        ELSE brand \o <<" ", "-", " ">> \o product_title

M_Matches(title) ==
    \E i \in 1..Len(search_terms) :
        Contains(ToLowercase(title), ToLowercase(search_terms[i]))

\* mutant: only the first node the selector matches is looked at
M_IsSoldOutFirstNode(p) ==
    /\ sold_out_selector
    /\ Len(p.sold) >= 1
    /\ Trim(p.sold[1]) = SOLD_OUT

M_IsSoldOut(p) ==
    /\ sold_out_selector
    /\ \E i \in 1..Len(p.sold) : Trim(p.sold[i]) = SOLD_OUT

M_ImageUrl(p) ==
    LET src == ImageSrc(p)
    IN  IF ~IsSome(src) THEN None
        ELSE LET u == Get(src)
                 processed_url == IF StartsWithHttp(u) THEN u
                                  ELSE IF StartsWithSlashSlash(u) THEN <<"http", "s:">> \o u
                                  ELSE BASE_URL \o u
             IN  Some(Replace(processed_url, "{width}", <<"800">>))

M_Id(url) == Md5Hex(SITE_NAME \o <<":">> \o url)

\* mutant: a later container with the same URL replaces the record
M_ProductLastWins(all, p) ==
    IF ~IsSome(p.link) THEN all
    ELSE LET url == M_Url(Get(p.link))
             title == M_Title(p)
         IN  IF ~M_Matches(title) THEN all
             ELSE IF M_IsSoldOut(p) THEN all
             ELSE LET jacket == Jacket(M_Id(url), title, TextOr(p.price, PRICE_NOT_FOUND),
                                       url, M_ImageUrl(p))
                  IN  [u \in (DOMAIN all) \cup {url} |->
                          IF u = url THEN jacket ELSE all[u]]

\* mutant: the URL is entered in the map before the filters are applied
M_ProductSeenFirst(all, p) ==
    IF ~IsSome(p.link) THEN all
    ELSE LET url == M_Url(Get(p.link))
             title == M_Title(p)
             jacket == Jacket(M_Id(url), title, TextOr(p.price, PRICE_NOT_FOUND),
                              url, M_ImageUrl(p))
         IN  IF url \in DOMAIN all THEN all
             ELSE IF ~M_Matches(title) \/ M_IsSoldOut(p)
             THEN [u \in (DOMAIN all) \cup {url} |->
                      IF u = url THEN [jacket EXCEPT !.title = <<>>] ELSE all[u]]
             ELSE [u \in (DOMAIN all) \cup {url} |->
                      IF u = url THEN jacket ELSE all[u]]

\* the body of `for product in document.select(&product_selector)`
M_Product(all, p) ==
    IF ~IsSome(p.link) THEN all
    ELSE LET url == M_Url(Get(p.link))
             title == M_Title(p)
         IN  IF url \in DOMAIN all THEN all
             ELSE IF ~M_Matches(title) THEN all
             ELSE IF M_IsSoldOut(p) THEN all
             ELSE LET jacket == Jacket(M_Id(url), title, TextOr(p.price, PRICE_NOT_FOUND),
                                       url, M_ImageUrl(p))
                  IN  [u \in (DOMAIN all) \cup {url} |->
                          IF u = url THEN jacket ELSE all[u]]

RECURSIVE M_Page(_, _)
M_Page(all, products) ==
    IF products = <<>> THEN all
    ELSE M_Page(M_Product(all, Head(products)), Tail(products))

\* MarrktScraper::extract_next_page_url: page.next is the href of the next
\* link inside the pagination container, None when any of them is missing
extract_next_page_url(page) ==
    IF ~IsSome(page.next) THEN None
    ELSE IF StartsWithHttp(Get(page.next)) THEN page.next
    ELSE Some(BASE_URL \o Get(page.next))

\* a page URL as a root-relative href
Rel(u) == SubSeq(u, Len(BASE_URL) + 1, Len(u))

NextHrefs == {None, Some(P2)} \cup {Some(Rel(u)) : u \in PageUrls}

MarrktSites ==
    { [u \in PageUrls |-> IF u = S1 THEN Page(<<pA, pC, pN>>, n1)
                          ELSE IF u = S2 THEN Page(<<pS, pB>>, n2)
                          ELSE Page(c, n3)] :
        n1 \in NextHrefs, n2 \in NextHrefs, n3 \in NextHrefs,
        c \in { <<pAq, pB>>, <<pC>> } }

FetchEvent(res) ==
    [op |-> "fetch", ti |-> m_ti, url |-> current_url, page |-> page_num, res |-> res,
     had |-> DOMAIN m_all]

\* `break`: on to the next search term, or to the end of the call
EndTerm(all) ==
    IF m_ti < Len(search_terms)
    THEN /\ m_ti' = m_ti + 1
         /\ current_url' = build_search_url(search_terms[m_ti + 1])
         /\ page_num' = 1
         /\ m_all' = all
         /\ m_pc' = "fetch"
         /\ m_result' = m_result
    ELSE /\ m_pc' = "done"
         /\ m_result' = [status |-> "ok", jackets |-> IntoValues(all)]
         /\ m_all' = EmptyMap
         /\ UNCHANGED <<m_ti, current_url, page_num>>

\* the call starts: all_jackets is empty, the first term's walk begins
MarrktCall ==
    /\ m_pc = "idle"
    /\ m_pc' = "fetch"
    /\ m_ti' = 1
    /\ current_url' = build_search_url(search_terms[1])
    /\ page_num' = 1
    /\ m_all' = EmptyMap
    /\ UNCHANGED <<m_result, m_log, mainVars, extractVars, profileVars>>

\* mutant: the next URL is followed without comparing it with current_url
AfterPageNoSelfCheck(all, next_page_url) ==
    IF IsSome(next_page_url)
    THEN /\ current_url' = Get(next_page_url)
         /\ page_num' = page_num + 1
         /\ m_all' = all
         /\ m_pc' = "sleep"
         /\ UNCHANGED <<m_ti, m_result>>
    ELSE EndTerm(all)

\* mutant: the next page is fetched at once, without the pause
AfterPageNoSleep(all, next_page_url) ==
    IF IsSome(next_page_url) /\ Get(next_page_url) # current_url
    THEN /\ current_url' = Get(next_page_url)
         /\ page_num' = page_num + 1
         /\ m_all' = all
         /\ m_pc' = "fetch"
         /\ UNCHANGED <<m_ti, m_result>>
    ELSE EndTerm(all)

\* mutant: the next page is requested before the records of this page are
\* folded into all_jackets
AfterPageDeferExtract(all, next_page_url) ==
    IF IsSome(next_page_url) /\ Get(next_page_url) # current_url
    THEN /\ current_url' = Get(next_page_url)
         /\ page_num' = page_num + 1
         /\ m_all' = m_all
         /\ m_pc' = "sleep"
         /\ UNCHANGED <<m_ti, m_result>>
    ELSE EndTerm(all)

\* `if let Some(next_url) = next_page_url`: go on to the next page or break
AfterPage(all, next_page_url) ==
    IF IsSome(next_page_url) /\ Get(next_page_url) # current_url
    THEN /\ current_url' = Get(next_page_url)
         /\ page_num' = page_num + 1
         /\ m_all' = all
         /\ m_pc' = "sleep"
         /\ UNCHANGED <<m_ti, m_result>>
    ELSE EndTerm(all)

\* mutant: the error carries the jackets collected so far
ErrResultKeep(all) == [status |-> "err", jackets |-> IntoValues(all)]

\* `send().await?` fails or `return Err(...)` on a non-success status:
\* the call returns the error and all_jackets is dropped with its frame
ErrResult(all) == [status |-> "err", jackets |-> {}]

\* one page: send, the status check, the extraction, the next-page decision
MarrktFetch ==
    /\ m_pc = "fetch"
    /\ \E outcome \in FetchOutcomes :
           /\ m_log' = Append(m_log, FetchEvent(outcome))
           /\ IF outcome # "ok"
              THEN /\ m_pc' = "done"
                   /\ m_result' = ErrResult(m_all)
                   /\ m_all' = EmptyMap
                   /\ UNCHANGED <<m_ti, current_url, page_num>>
              ELSE AfterPage(M_Page(m_all, site[current_url].products),
                             extract_next_page_url(site[current_url]))
    /\ UNCHANGED <<mainVars, extractVars, profileVars>>

\* mutant: reaching the ceiling is an error of the call
MarrktSleepHardStop ==
    /\ m_pc = "sleep"
    /\ m_log' = Append(m_log, [op |-> "sleep", ti |-> m_ti, url |-> current_url,
                               page |-> page_num, res |-> "ok", had |-> DOMAIN m_all])
    /\ IF page_num > MAX_PAGES
       THEN /\ m_pc' = "done"
            /\ m_result' = ErrResult(m_all)
            /\ m_all' = EmptyMap
            /\ UNCHANGED <<m_ti, current_url, page_num>>
       ELSE /\ m_pc' = "fetch"
            /\ UNCHANGED <<m_ti, current_url, page_num, m_all, m_result>>
    /\ UNCHANGED <<mainVars, extractVars, profileVars>>

\* mutant: the loop has no ceiling check
MarrktSleepNoCeiling ==
    /\ m_pc = "sleep"
    /\ m_log' = Append(m_log, [op |-> "sleep", ti |-> m_ti, url |-> current_url,
                               page |-> page_num, res |-> "ok", had |-> DOMAIN m_all])
    /\ m_pc' = "fetch"
    /\ UNCHANGED <<m_ti, current_url, page_num, m_all, m_result>>
    /\ UNCHANGED <<mainVars, extractVars, profileVars>>

\* mutant: the ceiling check stops the walk one page early
MarrktSleepCeilingEarly ==
    /\ m_pc = "sleep"
    /\ m_log' = Append(m_log, [op |-> "sleep", ti |-> m_ti, url |-> current_url,
                               page |-> page_num, res |-> "ok", had |-> DOMAIN m_all])
    /\ IF page_num >= MAX_PAGES
       THEN EndTerm(m_all)
       ELSE /\ m_pc' = "fetch"
            /\ UNCHANGED <<m_ti, current_url, page_num, m_all, m_result>>
    /\ UNCHANGED <<mainVars, extractVars, profileVars>>

\* the 500 ms sleep is over: back to the top of the loop and its ceiling check
MarrktSleep ==
    /\ m_pc = "sleep"
    /\ m_log' = Append(m_log, [op |-> "sleep", ti |-> m_ti, url |-> current_url,
                               page |-> page_num, res |-> "ok", had |-> DOMAIN m_all])
    /\ IF page_num > MAX_PAGES
       THEN EndTerm(m_all)
       ELSE /\ m_pc' = "fetch"
            /\ UNCHANGED <<m_ti, current_url, page_num, m_all, m_result>>
    /\ UNCHANGED <<mainVars, extractVars, profileVars>>

InitMarrkt ==
    /\ site \in MarrktSites
    /\ epoch = 0
    /\ db = {}
    /\ webhook = FALSE
    /\ mainpc = "start"
    /\ jobs = <<>>
    /\ restarts = 0
    /\ MarrktIdle
    /\ ExtractIdle
    /\ ProfileIdle

NextMarrkt ==
    \/ MarrktCall
    \/ MarrktFetch
    \/ MarrktSleep

SpecMarrkt == InitMarrkt /\ [][NextMarrkt]_vars

\* every fetch returns (send().await and text().await complete):
\* WF_vars(MarrktFetch), with ENABLED <<MarrktFetch>>_vars written as the
\* guard it is equivalent to, m_pc = "fetch"
FetchReturns == []<>(m_pc # "fetch") \/ []<><<MarrktFetch>>_vars

\* the call is not left waiting forever at an await: every fetch returns and
\* every sleep ends
SpecMarrktFair == SpecMarrkt /\ FetchReturns /\ WF_vars(MarrktSleep)

----------------------------------------------------------------------------
(* The product loops of the two scrapers, run on one parsed page *)

\* the hrefs a link node may carry: relative, absolute, with a query string,
\* with two '?'
ExtractLinks ==
    { None,
      Some(<<"/products/a">>),
      Some(<<"/products/a", "?", "v=1">>),
      Some(<<"/products/a", "?", "v=1", "?", "w=2">>),
      Some(BASE_URL \o <<"/products/b">>),
      Some(BASE_URL \o <<"/products/b", "?", "ref=x">>) }

\* the texts a title node may carry, or no title node
ExtractNames ==
    { None,
      Some(<<>>),
      Some(<<"N-1", " ", "Deck", " ", "Jacket">>),
      Some(<<" ", "DECK", " ", "Jacket", "\n">>),
      Some(<<"Shirt">>) }

\* the texts a brand node may carry, or no brand node
ExtractBrands == { None, Some(<<"Buzz">>), Some(<<"Deck", " ", "Jacket">>) }

\* the texts of the nodes the sold-out selector matches
ExtractSold ==
    { <<>>,
      << <<" ", "Sold", " ", "Out", "\n">> >>,
      << <<"In", " ", "stock">>, <<"Sold", " ", "Out">> >>,
      << <<"Sold", " ", "Out", " ", "soon">> >>,
      << <<"sold", " ", "out">> >> }

\* no image node; an image node with both attributes, with the standard one
\* only (protocol-relative, two width tokens), with the lazy-load one only
\* (root-relative), with an absolute lazy-load source, with neither
ExtractImages ==
    { None,
      Img(Some(<<"/img/a.jpg">>), Some(<<"/img/lazy.gif">>)),
      Img(None, Some(<<"//", "cdn.x/y_", "{width}", "x", "{width}", ".jpg">>)),
      Img(Some(<<"/y.jpg">>), None),
      Img(Some(<<"http", "s://cdn.x/z_", "{width}", ".jpg">>), Some(<<"/z.jpg">>)),
      Img(None, None) }

ExtractProducts ==
    { Product(link, name, brand, sold, Some(<<"EUR349">>), img) :
        link \in ExtractLinks, name \in ExtractNames, brand \in ExtractBrands,
        sold \in ExtractSold, img \in ExtractImages }

\* a sold-out listing under the URL of pA
pSa == Product(Some(<<"/products/a">>), Some(<<"Deck", " ", "Jacket">>),
               Some(<<"Buzz">>), << <<"Sold", " ", "Out">> >>, Some(<<"EUR10">>), None)

\* a listing under the URL of pA whose title matches no search term
pAx == Product(Some(<<"/products/a">>), Some(<<"Shirt">>), Some(<<"Buzz">>),
               <<>>, Some(<<"EUR20">>), None)

\* the pages: empty, every single product, and the pairs of the named products
ExtractPages ==
    {<<>>} \cup { <<p>> : p \in ExtractProducts }
           \cup { <<p, q>> : p \in {pA, pAq, pB, pC, pS, pN, pSa, pAx},
                               q \in {pA, pAq, pB, pC, pS, pN, pSa, pAx} }

\* Scraper::search_jackets: the product loop over one document
ExtractScraper ==
    /\ e_scraper = "none"
    /\ e_scraper' = "Scraper"
    /\ e_out' = S_Page(EmptyMap, e_page)
    /\ UNCHANGED <<e_page, mainVars, marrktVars, profileVars>>

\* MarrktScraper::search_jackets: the product loop over one document
ExtractMarrkt ==
    /\ e_scraper = "none"
    /\ e_scraper' = "MarrktScraper"
    /\ e_out' = M_Page(EmptyMap, e_page)
    /\ UNCHANGED <<e_page, mainVars, marrktVars, profileVars>>

InitExtract ==
    /\ site = MainSite(1)
    /\ epoch = 0
    /\ db = {}
    /\ webhook = FALSE
    /\ mainpc = "start"
    /\ jobs = <<>>
    /\ restarts = 0
    /\ MarrktIdle
    /\ e_page \in ExtractPages
    /\ e_scraper = "none"
    /\ e_out = EmptyMap
    /\ ProfileIdle

NextExtract ==
    \/ ExtractScraper
    \/ ExtractMarrkt

SpecExtract == InitExtract /\ [][NextExtract]_vars

----------------------------------------------------------------------------
(* MarrktScraper over the values a ScraperConfig can hold *)

\* the fields of SiteSelectors
SelectorNames ==
    {"product_container", "title", "price", "brand", "link", "image",
     "pagination_container", "pagination_next", "sold_out_indicator"}

\* the patterns search_jackets parses before its first fetch, each with `?`
ParsedAtSearch ==
    {"product_container", "title", "price", "link", "image", "brand",
     "sold_out_indicator"}

\* the patterns extract_next_page_url parses on every page, each with `.ok()?`
ParsedPerPage == {"pagination_container", "pagination_next"}

\* lists of search terms: the ones of MarrktScraper::new, a list whose only
\* term is the empty string, a list with one word
ProfileTerms == {search_terms, << <<>> >>, << <<"deck">> >>}

\* the configs: every list of terms with well-formed patterns or with one
\* malformed pattern
Profiles ==
    {ScraperConfig(t, m) : t \in ProfileTerms,
                           m \in {{}} \cup {{n} : n \in SelectorNames}}

\* a listing whose title node is there and empty, with no brand node
pE == Product(Some(<<"/products/e">>), Some(<<" ">>), None, <<>>, Some(<<"EUR5">>), None)

\* a listing whose title and brand nodes are both there and empty
pEb == Product(Some(<<"/products/f">>), Some(<<>>), Some(<<>>), <<>>, None, None)

ProfilePages ==
    {Page(ps, n) : ps \in {<<pA>>, <<pE, pA>>, <<pEb, pC>>, <<pN, pB>>},
                   n \in {None, Some(<<"/search", "?", "page=2">>)}}

\* `self.config.search_terms.iter().any(|term| title_lower.contains(...))`
P_Matches(config, title) ==
    \E i \in 1..Len(config.search_terms) :
        Contains(ToLowercase(title), ToLowercase(config.search_terms[i]))

\* the body of `for product in document.select(&product_selector)`
P_Product(config, all, p) ==
    IF ~IsSome(p.link) THEN all
    ELSE LET url == M_Url(Get(p.link))
             title == M_Title(p)
         IN  IF url \in DOMAIN all THEN all
             ELSE IF ~P_Matches(config, title) THEN all
             ELSE IF M_IsSoldOut(p) THEN all
             ELSE LET jacket == Jacket(M_Id(url), title, TextOr(p.price, PRICE_NOT_FOUND),
                                       url, M_ImageUrl(p))
                  IN  [u \in (DOMAIN all) \cup {url} |->
                          IF u = url THEN jacket ELSE all[u]]

RECURSIVE P_Page(_, _, _)
P_Page(config, all, products) ==
    IF products = <<>> THEN all
    ELSE P_Page(config, P_Product(config, all, Head(products)), Tail(products))

\* MarrktScraper::extract_next_page_url: `Selector::parse(...).ok()?` returns
\* None for a malformed pattern
P_extract_next_page_url(config, page) ==
    IF config.malformed \cap ParsedPerPage # {} THEN None
    ELSE extract_next_page_url(page)

\* the constructor returns Ok(Self { client, config }): it parses no pattern
ProfileNew ==
    /\ p_pc = "new"
    /\ p_pc' = "built"
    /\ UNCHANGED <<p_config, p_page, p_all, p_next, mainVars, marrktVars, extractVars>>

\* search_jackets up to its first fetch: the patterns are parsed, and a
\* malformed one returns "Failed to parse ... selector"
ProfileSearch ==
    /\ p_pc = "built"
    /\ p_pc' = IF p_config.malformed \cap ParsedAtSearch # {} THEN "failed" ELSE "fetch"
    /\ UNCHANGED <<p_config, p_page, p_all, p_next, mainVars, marrktVars, extractVars>>

\* the first page of the first term is fetched: the next-page URL is
\* extracted, the products are folded into all_jackets
ProfileFetch ==
    /\ p_pc = "fetch"
    /\ p_pc' = "paged"
    /\ p_next' = P_extract_next_page_url(p_config, p_page)
    /\ p_all' = P_Page(p_config, EmptyMap, p_page.products)
    /\ UNCHANGED <<p_config, p_page, mainVars, marrktVars, extractVars>>

InitProfile ==
    /\ site = MainSite(1)
    /\ epoch = 0
    /\ db = {}
    /\ webhook = FALSE
    /\ mainpc = "start"
    /\ jobs = <<>>
    /\ restarts = 0
    /\ MarrktIdle
    /\ ExtractIdle
    /\ p_pc = "new"
    /\ p_config \in Profiles
    /\ p_page \in ProfilePages
    /\ p_all = EmptyMap
    /\ p_next = None

NextProfile ==
    \/ ProfileNew
    \/ ProfileSearch
    \/ ProfileFetch

SpecProfile == InitProfile /\ [][NextProfile]_vars

----------------------------------------------------------------------------
(* Vocabulary of the properties *)

Jobs == 1..Len(jobs)

Ids(jackets) == {jk.id : jk \in jackets}

\* the calls of save_jacket / send_notification a cycle made for an id
SaveCalls(job, id) == {i \in 1..Len(job.log) : job.log[i].op = "save" /\ job.log[i].id = id}
SaveOks(job, id) == {i \in SaveCalls(job, id) : job.log[i].res = "ok"}
NotifyCalls(job, id) ==
    {i \in 1..Len(job.log) : job.log[i].op = "notify" /\ job.log[i].id = id}

\* the cycle returned by itself (it was not cut short by a shutdown)
Returned(job) == job.result \in {"ok", "err"}

----------------------------------------------------------------------------
(* C1 *)

\* C1, as stated: in a cycle that has read the known set and returned, a record
\* the scraper returned was persisted and had its notification attempted if and
\* only if its identity is absent from the known set read in that cycle.
C1_NewIffAbsent ==
    \A j \in Jobs :
        (jobs[j].read /\ Returned(jobs[j])) =>
            \A jk \in jobs[j].found :
                (SaveOks(jobs[j], jk.id) # {} /\ NotifyCalls(jobs[j], jk.id) # {})
                    <=> jk.id \notin jobs[j].existing_ids

\* C1, amended: save_jacket and send_notification are called only for returned
\* records whose identity is absent from the known set read in that cycle (never
\* for one whose identity is in it, and never before the set is read); and in a
\* cycle that returns Ok every returned record whose identity is absent from
\* that set was persisted and had its notification attempted.
C1_OnlyAbsentAndAllWhenOk ==
    \A j \in Jobs :
        /\ \A i \in 1..Len(jobs[j].log) :
               /\ jobs[j].read
               /\ jobs[j].log[i].id \in Ids(jobs[j].found)
               /\ jobs[j].log[i].id \notin jobs[j].existing_ids
        /\ jobs[j].result = "ok" =>
               \A jk \in jobs[j].found :
                   jk.id \notin jobs[j].existing_ids =>
                       /\ SaveOks(jobs[j], jk.id) # {}
                       /\ NotifyCalls(jobs[j], jk.id) # {}

\* a cycle returned Ok having found one record it knew and one it did not,
\* which it persisted and notified
C1_Witness ==
    \E j \in Jobs :
        /\ jobs[j].result = "ok"
        /\ \E known \in jobs[j].found, new \in jobs[j].found :
               /\ known.id \in jobs[j].existing_ids
               /\ SaveCalls(jobs[j], known.id) = {}
               /\ NotifyCalls(jobs[j], known.id) = {}
               /\ new.id \notin jobs[j].existing_ids
               /\ SaveOks(jobs[j], new.id) # {}
               /\ NotifyCalls(jobs[j], new.id) # {}

----------------------------------------------------------------------------
(* C2 *)

\* C2: every send_notification call of a cycle comes after a successful
\* save_jacket of the same identity in that cycle, and no notification is sent
\* for an identity whose save failed.
C2_NotifyAfterPersist ==
    \A j \in Jobs :
        \A i \in 1..Len(jobs[j].log) :
            jobs[j].log[i].op = "notify" =>
                /\ \E k \in SaveOks(jobs[j], jobs[j].log[i].id) : k < i
                /\ \A k \in SaveCalls(jobs[j], jobs[j].log[i].id) :
                       jobs[j].log[k].res = "ok"

\* a cycle has sent a notification to the webhook, and another cycle's save
\* failed
C2_Witness ==
    /\ \E j \in Jobs : \E i \in 1..Len(jobs[j].log) :
           jobs[j].log[i].op = "notify" /\ jobs[j].log[i].res = "ok"
    /\ \E j \in Jobs : jobs[j].failed = "save"

----------------------------------------------------------------------------
(* C3 *)

\* C3: when a cycle has returned Ok and a cycle started after it saw the same
\* content of the origin (no change of the pages between the fetches of the
\* two), the second cycle calls neither save_jacket nor send_notification.
C3_IdempotentCycle ==
    \A i \in Jobs, k \in Jobs :
        ( /\ jobs[i].result = "ok"
          /\ i \in jobs[k].after
          /\ \E e \in jobs[i].epochs : jobs[i].epochs = {e} /\ jobs[k].epochs \subseteq {e} )
        => jobs[k].log = <<>>

\* the first cycle persisted something, the second ran to the end on the same
\* pages, found the same records and processed none
C3_Witness ==
    \E i \in Jobs, k \in Jobs :
        /\ jobs[i].result = "ok"
        /\ jobs[i].log # <<>>
        /\ i \in jobs[k].after
        /\ jobs[k].result = "ok"
        /\ jobs[k].epochs = jobs[i].epochs
        /\ jobs[k].found = jobs[i].found
        /\ jobs[k].log = <<>>

----------------------------------------------------------------------------
(* C4 *)

\* C4: over all cycles, each identity is saved successfully at most once and
\* has a notification attempted at most once; and a cycle started after the
\* cycle that saved an identity was over makes no call for that identity.
C4_AtMostOnce ==
    \A j \in Jobs :
        \A n \in 1..Len(jobs[j].log) :
            LET id == jobs[j].log[n].id
            IN  /\ Cardinality(SaveOks(jobs[j], id)) <= 1
                /\ Cardinality(NotifyCalls(jobs[j], id)) <= 1
                /\ \A k \in Jobs \ {j} :
                       /\ SaveOks(jobs[j], id) # {} => SaveOks(jobs[k], id) = {}
                       /\ NotifyCalls(jobs[j], id) # {} => NotifyCalls(jobs[k], id) = {}
                       /\ (SaveOks(jobs[j], id) # {} /\ j \in jobs[k].after) =>
                              (SaveCalls(jobs[k], id) = {} /\ NotifyCalls(jobs[k], id) = {})

\* an identity was saved by a cycle that then did not deliver its notification
\* (the webhook refused it, the connection failed or the process was shut
\* down) and a later cycle found the record again and left it alone
C4_Witness ==
    \E j \in Jobs, k \in Jobs :
        /\ j \in jobs[k].after
        /\ jobs[k].result = "ok"
        /\ \E jk \in jobs[k].found :
               /\ SaveOks(jobs[j], jk.id) # {}
               /\ \A i \in NotifyCalls(jobs[j], jk.id) : jobs[j].log[i].res \in {"status", "conn"}
               /\ jobs[j].result \in {"killed", "err", "ok"}
               /\ SaveCalls(jobs[k], jk.id) = {}
               /\ NotifyCalls(jobs[k], jk.id) = {}

----------------------------------------------------------------------------
(* C5 *)

----------------------------------------------------------------------------
(* C6 *)

\* C6: a failed notification (connection failure or non-success response) is
\* swallowed: it does not end the cycle with an error, and the cycle does not
\* return after it while a new record is still waiting to be persisted.
C6_NotifyFailureSwallowed ==
    \A j \in Jobs :
        \A i \in 1..Len(jobs[j].log) :
            (jobs[j].log[i].op = "notify" /\ jobs[j].log[i].res \in {"conn", "status"}) =>
                /\ ~(jobs[j].result = "err" /\ jobs[j].failed = "notify")
                /\ (Returned(jobs[j]) /\ i = Len(jobs[j].log)) =>
                       \A jk \in jobs[j].found :
                           jk.id \notin jobs[j].existing_ids =>
                               SaveCalls(jobs[j], jk.id) # {}

----------------------------------------------------------------------------
(* C7 *)

\* C7: a failed save_jacket is the last call of its cycle: the cycle is over
\* with that error, no notification was attempted for the record, no other
\* record is saved or notified after it, and the identities the cycle saved
\* before are in the store.
C7_PersistFailureFatal ==
    \A j \in Jobs :
        \A i \in 1..Len(jobs[j].log) :
            (jobs[j].log[i].op = "save" /\ jobs[j].log[i].res = "err") =>
                /\ i = Len(jobs[j].log)
                /\ jobs[j].pc = "done"
                /\ jobs[j].result = "err"
                /\ jobs[j].failed = "save"
                /\ NotifyCalls(jobs[j], jobs[j].log[i].id) = {}
                /\ \A k \in 1..(i - 1) :
                       (jobs[j].log[k].op = "save" /\ jobs[j].log[k].res = "ok") =>
                           jobs[j].log[k].id \in db

\* a cycle saved and notified one record, and its save of the next one failed
C7_Witness ==
    \E j \in Jobs :
        /\ Len(jobs[j].log) = 3
        /\ jobs[j].log[1].op = "save" /\ jobs[j].log[1].res = "ok"
        /\ jobs[j].log[2].op = "notify"
        /\ jobs[j].log[3].op = "save" /\ jobs[j].log[3].res = "err"
        /\ jobs[j].log[1].id \in db

----------------------------------------------------------------------------
(* C9 *)

\* C9: when a fetch of the search fails, what the walk had collected is
\* discarded: the call returns no record, and the cycle makes no save_jacket
\* and no send_notification call, so it leaves the store as it found it.
C9_FailedSearchPersistsNothing ==
    \A j \in Jobs :
        jobs[j].search_failed =>
            /\ jobs[j].all_jackets = EmptyMap
            /\ jobs[j].found = {}
            /\ jobs[j].jackets = {}
            /\ \A u \in jobs[j].dropped :
                   SaveCalls(jobs[j], S_Id(u)) = {} /\ NotifyCalls(jobs[j], S_Id(u)) = {}
            /\ (\A k \in Jobs \ {j} : jobs[k].log = <<>>) => db = {}

\* the fetch for the second term failed after the page of the first term had
\* yielded a record, and the store is empty
C9_Witness ==
    \E j \in Jobs :
        /\ jobs[j].search_failed
        /\ jobs[j].dropped # {}
        /\ db = {}

----------------------------------------------------------------------------
(* C8 *)

FetchEvents == {i \in 1..Len(m_log) : m_log[i].op = "fetch"}

\* a fetch of page k > 1 of a term's walk got a non-success status
StatusErrorAfterFirstPage(i) ==
    i \in FetchEvents /\ m_log[i].res = "status" /\ m_log[i].page > 1

\* C8, as stated: when the fetch of page k > 1 gets a non-success status the
\* walk is aborted with an error and the candidates collected before it are
\* retained and available to the caller.
C8_PartialResultsRetained ==
    \A i \in 1..Len(m_log) :
        StatusErrorAfterFirstPage(i) =>
            /\ m_result.status = "err"
            /\ {jk.url : jk \in m_result.jackets} = m_log[i].had

\* C8, amended: when the fetch of page k > 1 gets a non-success status the
\* whole search_jackets() call ends there with an error (no later page and no
\* later term is fetched) and the candidates collected before it are dropped:
\* the caller receives the error and no record.
C8_PartialResultsDropped ==
    \A i \in 1..Len(m_log) :
        StatusErrorAfterFirstPage(i) =>
            /\ i = Len(m_log)
            /\ m_pc = "done"
            /\ m_result.status = "err"
            /\ m_result.jackets = {}
            /\ m_all = EmptyMap

\* the second page of a walk got a non-success status after a record had been
\* collected
C8_Witness ==
    \E i \in 1..Len(m_log) :
        StatusErrorAfterFirstPage(i) /\ m_log[i].had # {} /\ m_pc = "done"

----------------------------------------------------------------------------
(* C10 *)

\* the page fetched by event i links to itself as its next page
SelfLinked(i) ==
    /\ i \in FetchEvents
    /\ m_log[i].res = "ok"
    /\ extract_next_page_url(site[m_log[i].url]) = Some(m_log[i].url)

\* C10: when page N of a term's walk names its own URL as the next page, the
\* walk of that term has fetched pages 1..N once each, page N last, and is
\* over: no fetch and no pause of that term follows.
C10_SelfLinkStopsWalk ==
    \A i \in 1..Len(m_log) :
        SelfLinked(i) =>
            /\ \A k \in 1..Len(m_log) :
                   (k # i /\ m_log[k].ti = m_log[i].ti) =>
                       (k < i /\ m_log[k].page <= m_log[i].page)
            /\ Cardinality({k \in FetchEvents : k <= i /\ m_log[k].ti = m_log[i].ti})
                   = m_log[i].page
            /\ Cardinality({k \in FetchEvents : m_log[k].ti = m_log[i].ti
                                                /\ m_log[k].url = m_log[i].url}) = 1
            /\ m_pc = "done" \/ m_ti > m_log[i].ti

\* the second page of the first term's walk linked to itself, and the walk of
\* the second term has begun
C10_Witness ==
    \E i \in 1..Len(m_log) :
        /\ SelfLinked(i)
        /\ m_log[i].page = 2
        /\ m_log[i].ti = 1
        /\ \E k \in FetchEvents : k > i /\ m_log[k].ti = 2

----------------------------------------------------------------------------
(* C11 *)

\* the loop top found page_num above the ceiling: the step that ended the pause
\* before page MAX_PAGES + 1 broke out of the loop
CeilingReached(i) == m_log[i].op = "sleep" /\ m_log[i].page > MAX_PAGES

Urls(jackets) == {jk.url : jk \in jackets}

\* C11: one call fetches at most MAX_PAGES pages for each search term; and
\* when a term's walk reaches the ceiling the walk of that term is over
\* without an error: the records collected so far are kept (in all_jackets and
\* then in the Ok result), the next term is walked, and the call returns an
\* error only if a later fetch fails.
C11_PageCeilingSoftStop ==
    /\ \A t \in 1..Len(search_terms) :
           Cardinality({i \in FetchEvents : m_log[i].ti = t}) <= MAX_PAGES
    /\ \A i \in FetchEvents : m_log[i].page <= MAX_PAGES
    /\ \A i \in 1..Len(m_log) :
           CeilingReached(i) =>
               /\ \A k \in (i + 1)..Len(m_log) : m_log[k].ti > m_log[i].ti
               /\ IF m_log[i].ti < Len(search_terms)
                  THEN /\ m_ti > m_log[i].ti
                       /\ i = Len(m_log) =>
                              /\ m_pc = "fetch"
                              /\ page_num = 1
                              /\ current_url = build_search_url(search_terms[m_ti])
                  ELSE /\ m_pc = "done"
                       /\ m_result.status = "ok"
               /\ m_result.status = "err" =>
                      \E k \in FetchEvents : k > i /\ m_log[k].res # "ok"
               /\ m_result.status = "ok" => m_log[i].had \subseteq Urls(m_result.jackets)
               /\ m_pc # "done" => m_log[i].had \subseteq DOMAIN m_all

\* the walk of the first term was stopped by the ceiling after MAX_PAGES
\* fetches with a record collected, the second term was walked and the call
\* returned Ok with that record
C11_Witness ==
    \E i \in 1..Len(m_log) :
        /\ CeilingReached(i)
        /\ m_log[i].ti = 1
        /\ m_log[i].had # {}
        /\ Cardinality({k \in FetchEvents : m_log[k].ti = 1}) = MAX_PAGES
        /\ \E k \in FetchEvents : m_log[k].ti = 2
        /\ m_result.status = "ok"
        /\ m_log[i].had \subseteq Urls(m_result.jackets)

----------------------------------------------------------------------------
(* C12 *)

\* C12: every call of search_jackets() terminates, whatever the graph of the
\* next links (cycles of two or more pages included), provided each fetch
\* returns: a call makes at most MAX_PAGES fetches and MAX_PAGES pauses per
\* search term, and a call that is at a fetch eventually returns.
C12_WalkTerminates ==
    /\ [](Len(m_log) <= 2 * MAX_PAGES * Len(search_terms))
    /\ (m_pc = "fetch") ~> (m_pc = "done")

\* the call has returned after a walk that went round a cycle of two pages
\* (A, B, A)
C12_Witness ==
    /\ m_pc = "done"
    /\ \E i \in FetchEvents, k \in FetchEvents, l \in FetchEvents :
           /\ i < k /\ k < l
           /\ m_log[i].ti = m_log[k].ti /\ m_log[k].ti = m_log[l].ti
           /\ m_log[i].url = m_log[l].url
           /\ m_log[i].url # m_log[k].url

----------------------------------------------------------------------------
(* C13 *)

InProgress == {j \in Jobs : jobs[j].pc # "done"}

\* C13: at any time at most one call of check_for_new_jackets() is in
\* progress, and no cycle reads the known set between the read and the last
\* save of another cycle.
C13_NoOverlap ==
    /\ Cardinality(InProgress) <= 1
    /\ \A j \in Jobs, k \in Jobs :
           (j < k /\ jobs[k].read) => jobs[j].pc = "done" \/ ~jobs[j].read

----------------------------------------------------------------------------
(* C14 *)

\* the fetch before event i in the call, 0 when there is none
RECURSIVE PrevFetch(_)
PrevFetch(i) ==
    IF i <= 1 THEN 0
    ELSE IF m_log[i - 1].op = "fetch" THEN i - 1
    ELSE PrevFetch(i - 1)

\* fetch i was issued after the fetch before it had returned successfully,
\* it is for the next page of the same term or the first page of the next
\* term, and the records of the page before it were in all_jackets
IssuedInTurn(i) ==
    LET k == PrevFetch(i)
    IN  k # 0 =>
            /\ m_log[k].res = "ok"
            /\ \/ m_log[k].ti = m_log[i].ti /\ m_log[i].page = m_log[k].page + 1
               \/ m_log[i].ti = m_log[k].ti + 1 /\ m_log[i].page = 1
            /\ m_log[i].had =
                   DOMAIN M_Page([u \in m_log[k].had |-> u], site[m_log[k].url].products)

\* C14: the fetches of one call are issued one after another, in the order of
\* the search terms and of the pages: a step issues at most one request (the
\* history only grows, by one event a step), a request is issued only after
\* the previous one returned successfully, and when it is issued the records
\* of the previous page are already folded into all_jackets.
C14_SequentialFetches ==
    /\ []((m_log # <<>> /\ m_log[Len(m_log)].op = "fetch") => IssuedInTurn(Len(m_log)))
    /\ [][m_log' = m_log \/ (Len(m_log') = Len(m_log) + 1
                              /\ SubSeq(m_log', 1, Len(m_log)) = m_log)]_vars

\* the second page of a walk was fetched after the first page had yielded a
\* record, and the second term's first page after that
C14_Witness ==
    \E i \in FetchEvents, k \in FetchEvents :
        /\ m_log[i].page = 2
        /\ m_log[i].had # {}
        /\ PrevFetch(i) # 0
        /\ m_log[PrevFetch(i)].had = {}
        /\ k > i
        /\ m_log[k].ti = 2

----------------------------------------------------------------------------
(* C15 *)

\* C15: in the walk of a search term every fetch of a page after the first
\* comes right after a pause, which comes right after the successful fetch of
\* the page before it; two fetches that follow each other without a pause
\* belong to different search terms.
C15_PauseBetweenPages ==
    /\ \A i \in FetchEvents :
           m_log[i].page > 1 =>
               /\ i >= 3
               /\ m_log[i - 1].op = "sleep"
               /\ m_log[i - 1].ti = m_log[i].ti
               /\ m_log[i - 1].url = m_log[i].url
               /\ m_log[i - 2].op = "fetch"
               /\ m_log[i - 2].res = "ok"
               /\ m_log[i - 2].ti = m_log[i].ti
               /\ m_log[i - 2].page = m_log[i].page - 1
    /\ \A i \in FetchEvents :
           (i > 1 /\ m_log[i - 1].op = "fetch") =>
               (m_log[i - 1].ti < m_log[i].ti /\ m_log[i].page = 1)

\* a walk has fetched its third page, and the first page of the second term
\* was fetched right after the last page of the first
C15_Witness ==
    /\ \E i \in FetchEvents : m_log[i].page = 3
    /\ \E i \in FetchEvents : i > 1 /\ m_log[i - 1].op = "fetch" /\ m_log[i].ti = 2

----------------------------------------------------------------------------
(* C16 *)

\* the eager cycle of the process run that started cycle k: the last eager
\* cycle before k
EagerOf(k) ==
    CHOOSE j \in 1..(k - 1) :
        /\ jobs[j].kind = "eager"
        /\ \A l \in (j + 1)..(k - 1) : jobs[l].kind = "scheduled"

\* C16: every scheduled cycle was started by a process whose eager start-up
\* cycle was over when the scheduled cycle began; the scheduler is running
\* only when the eager cycle has ended; and once the eager cycle has ended,
\* whatever its result, the scheduler can be started.
C16_EagerBeforeScheduler ==
    /\ \A k \in Jobs :
           jobs[k].kind = "scheduled" =>
               /\ \E j \in 1..(k - 1) : jobs[j].kind = "eager"
               /\ EagerOf(k) \in jobs[k].after
    /\ mainpc = "sched" => \A j \in Jobs : jobs[j].kind = "eager" => jobs[j].pc = "done"
    /\ mainpc = "eager" =>
           /\ jobs # <<>>
           /\ jobs[Len(jobs)].kind = "eager"
           /\ jobs[Len(jobs)].pc = "done" => ENABLED SchedulerStart

\* the eager cycle returned an error, and a scheduled cycle of the same
\* process run found, persisted and notified a record
C16_Witness ==
    \E k \in Jobs :
        /\ jobs[k].kind = "scheduled"
        /\ jobs[k].result = "ok"
        /\ jobs[k].log # <<>>
        /\ \E j \in 1..(k - 1) : jobs[j].kind = "eager"
        /\ jobs[EagerOf(k)].result = "err"

----------------------------------------------------------------------------
(* C17 *)

SaveFailed(job) == \E i \in 1..Len(job.log) : job.log[i].op = "save" /\ job.log[i].res = "err"

\* C17: when no webhook is configured, send_notification makes no request
\* and returns Ok: no cycle ends with the error of a notification, each call
\* counts the record as new, and a cycle that read the known set and whose
\* saves all succeeded returns Ok with every new record in the store.
C17_NoWebhookNoDelivery ==
    ~webhook =>
        \A j \in Jobs :
            /\ \A i \in 1..Len(jobs[j].log) :
                   jobs[j].log[i].op = "notify" => jobs[j].log[i].res = "disabled"
            /\ jobs[j].failed # "notify"
            /\ jobs[j].new_jackets =
                   Cardinality({i \in 1..Len(jobs[j].log) : jobs[j].log[i].op = "notify"})
            /\ (Returned(jobs[j]) /\ jobs[j].read /\ ~SaveFailed(jobs[j])) =>
                   /\ jobs[j].result = "ok"
                   /\ \A jk \in jobs[j].found :
                          jk.id \notin jobs[j].existing_ids =>
                              /\ SaveOks(jobs[j], jk.id) # {}
                              /\ NotifyCalls(jobs[j], jk.id) # {}
                              /\ jk.id \in db

\* without a webhook a cycle returned Ok having persisted two new records
C17_Witness ==
    /\ ~webhook
    /\ \E j \in Jobs :
           /\ jobs[j].result = "ok"
           /\ jobs[j].new_jackets = 2
           /\ Cardinality(db) >= 2

----------------------------------------------------------------------------
(* C18 *)

\* the lower-cased title contains one of the configured terms, lower-cased
TitleHasTerm(title) ==
    \E t \in 1..Len(search_terms) :
        Contains(ToLowercase(title), ToLowercase(search_terms[t]))

\* C18: every record a product loop emits carries a combined title that
\* contains one of the configured terms without regard to case; a page whose
\* candidates all lack the terms yields no record.
C18_MatchTermFilter ==
    e_scraper # "none" =>
        /\ \A u \in DOMAIN e_out : TitleHasTerm(e_out[u].title)
        /\ (\A i \in 1..Len(e_page) :
                ~TitleHasTerm(TextOr(e_page[i].brand, <<>>) \o <<" ", "-", " ">>
                                  \o TextOr(e_page[i].name, <<>>)))
               => e_out = EmptyMap

\* of a page with a matching and a non-matching listing only the matching one
\* was emitted
C18_Witness ==
    /\ e_scraper # "none"
    /\ e_page = <<pA, pC>>
    /\ DOMAIN e_out = {BASE_URL \o <<"/products/a">>}

----------------------------------------------------------------------------
(* C19 *)

SoldOutText(p) == \E n \in 1..Len(p.sold) : Trim(p.sold[n]) = SOLD_OUT

\* C19: MarrktScraper, whose profile configures a sold-out selector, emits no
\* record from a container in which a node matched by that selector has the
\* trimmed text "Sold Out": every emitted record carries the fields of a
\* container of the page that has no such node.
C19_SoldOutExcluded ==
    e_scraper = "MarrktScraper" =>
        \A u \in DOMAIN e_out :
            \E i \in 1..Len(e_page) :
                /\ IsSome(e_page[i].link)
                /\ M_Url(Get(e_page[i].link)) = u
                /\ ~SoldOutText(e_page[i])
                /\ e_out[u].title = M_Title(e_page[i])
                /\ e_out[u].price = TextOr(e_page[i].price, PRICE_NOT_FOUND)

\* a page held a sold-out listing whose title matches, with the marker in the
\* second node the selector matches, next to an available listing: only the
\* available one was emitted
C19_Witness ==
    /\ e_scraper = "MarrktScraper"
    /\ e_page = <<pS, pB>>
    /\ DOMAIN e_out = {BASE_URL \o <<"/products/b">>}

----------------------------------------------------------------------------
(* C20 *)

\* a URL without its query string: everything from the first '?' is dropped
StripQuery(u) == IF FindQuery(u) > 0 THEN Truncate(u, FindQuery(u) - 1) ELSE u

\* C20: two listing links that differ only in their query string yield the
\* same identity: records emitted from one page whose URLs are equal up to
\* the query string have the same id.
C20_IdentityIgnoresQuery ==
    e_scraper # "none" =>
        \A u1 \in DOMAIN e_out, u2 \in DOMAIN e_out :
            StripQuery(u1) = StripQuery(u2) => e_out[u1].id = e_out[u2].id

----------------------------------------------------------------------------
(* C21 *)

----------------------------------------------------------------------------
(* C25 *)

\* every "{width}" token replaced by "800"
Sub800(s) == [i \in 1..Len(s) |-> IF s[i] = "{width}" THEN "800" ELSE s[i]]

\* the source the image node offers: the lazy-load attribute when it is
\* there, the standard one otherwise
OfferedSrc(p) ==
    IF ~IsSome(p.img) THEN None
    ELSE IF IsSome(Get(p.img).data_src) THEN Get(p.img).data_src
    ELSE Get(p.img).src

\* C25: every emitted image_url is absolute and holds no "{width}" token;
\* and the record emitted from a page of one container has an image_url
\* exactly when the image node offers a source, made from the lazy-load
\* attribute rather than the standard one: "https:" before a
\* protocol-relative source, base_url before any other source that does not
\* start with "http", every "{width}" replaced by "800".
C25_ImageUrlNormalized ==
    e_scraper # "none" =>
        /\ \A u \in DOMAIN e_out :
               IsSome(e_out[u].image_url) =>
                   /\ StartsWithHttp(Get(e_out[u].image_url))
                   /\ \A i \in 1..Len(Get(e_out[u].image_url)) :
                          Get(e_out[u].image_url)[i] # "{width}"
        /\ Len(e_page) = 1 =>
               \A u \in DOMAIN e_out :
                   LET src == OfferedSrc(e_page[1])
                   IN  /\ IsSome(e_out[u].image_url) <=> IsSome(src)
                       /\ IsSome(src) =>
                              Get(e_out[u].image_url) =
                                  IF StartsWithHttp(Get(src)) THEN Sub800(Get(src))
                                  ELSE IF StartsWithSlashSlash(Get(src))
                                  THEN <<"http", "s:">> \o Sub800(Get(src))
                                  ELSE BASE_URL \o Sub800(Get(src))

\* a record was emitted from a container whose image node has only a
\* protocol-relative standard source with two width tokens
C25_Witness ==
    /\ e_scraper # "none"
    /\ Len(e_page) = 1
    /\ e_page[1].img = Img(None, Some(<<"//", "cdn.x/y_", "{width}", "x", "{width}", ".jpg">>))
    /\ \E u \in DOMAIN e_out :
           e_out[u].image_url = Some(<<"http", "s:", "//", "cdn.x/y_", "800", "x", "800", ".jpg">>)

----------------------------------------------------------------------------
(* C29 *)

\* the combined title the scraper gives a container, and its canonical URL
TitleOf(p) == IF e_scraper = "MarrktScraper" THEN M_Title(p) ELSE S_Title(p)
CanonOf(p) == IF e_scraper = "MarrktScraper" THEN M_Url(Get(p.link)) ELSE S_Url(Get(p.link))

\* the container has a link and passes the filters of the scraper: the match
\* filter, and for MarrktScraper the sold-out filter
Passes(p) ==
    /\ IsSome(p.link)
    /\ TitleHasTerm(TitleOf(p))
    /\ e_scraper = "MarrktScraper" => ~SoldOutText(p)

\* C29: the URLs in the dedup map are exactly the canonical URLs of the
\* containers that pass the filters, and the record kept for a URL carries
\* the fields of the first container with that URL that passes them: a
\* container rejected by a filter does not keep a later one with the same URL
\* from being emitted.
C29_RejectedNotMarkedSeen ==
    e_scraper # "none" =>
        /\ DOMAIN e_out = {CanonOf(e_page[i]) : i \in {k \in 1..Len(e_page) : Passes(e_page[k])}}
        /\ \A i \in 1..Len(e_page) :
               (Passes(e_page[i])
                /\ \A k \in 1..(i - 1) :
                       Passes(e_page[k]) => CanonOf(e_page[k]) # CanonOf(e_page[i]))
               => /\ e_out[CanonOf(e_page[i])].title = TitleOf(e_page[i])
                  /\ e_out[CanonOf(e_page[i])].price = TextOr(e_page[i].price, PRICE_NOT_FOUND)

\* MarrktScraper emitted a listing whose URL it had first met in a container
\* it rejected: once rejected as sold out, once for its title
C29_Witness ==
    /\ e_scraper = "MarrktScraper"
    /\ e_page \in {<<pSa, pA>>, <<pAx, pA>>}
    /\ \E u \in DOMAIN e_out : e_out[u].price = <<"EUR349">>

----------------------------------------------------------------------------
(* C30 *)

\* C30: the URL of every emitted record is absolute and holds no '?'; it is
\* the key of the record in the dedup map, and the identity is the digest of
\* that URL (with or without the site name before it).
C30_CanonicalUrlStripped ==
    e_scraper # "none" =>
        \A u \in DOMAIN e_out :
            /\ StartsWithHttp(e_out[u].url)
            /\ FindQuery(e_out[u].url) = 0
            /\ e_out[u].url = u
            /\ e_out[u].id \in {Md5Hex(u), Md5Hex(SITE_NAME \o <<":">> \o u)}

----------------------------------------------------------------------------
(* C22 *)

\* the records the call holds: all_jackets while it runs, the Ok result once
\* it has returned
Held ==
    IF m_pc = "done" /\ m_result.status = "ok" THEN m_result.jackets
    ELSE IntoValues(m_all)

\* container i of the page is the first one with canonical URL u that passes
\* the filters of MarrktScraper
FirstPassing(products, i, u) ==
    /\ IsSome(products[i].link)
    /\ StripQuery(IF StartsWithHttp(Get(products[i].link)) THEN Get(products[i].link)
                  ELSE BASE_URL \o Get(products[i].link)) = u
    /\ TitleHasTerm(M_Title(products[i]))
    /\ ~SoldOutText(products[i])
    /\ \A k \in 1..(i - 1) :
           ~(/\ IsSome(products[k].link)
             /\ M_Url(Get(products[k].link)) = u
             /\ TitleHasTerm(M_Title(products[k]))
             /\ ~SoldOutText(products[k]))

\* C22: the records a call holds never include two with the same URL or the
\* same id; a step that does not end the call with an error keeps every
\* record held before it as it was, and a record it adds has a URL not held
\* before and the fields of the first container of the fetched page, in
\* document order, that has this URL and passes the filters.
C22_DedupFirstSeenWins ==
    /\ [](\A a \in Held, b \in Held : (a.url = b.url \/ a.id = b.id) => a = b)
    /\ [][(m_pc # "idle" /\ ~(m_pc' = "done" /\ m_result'.status = "err")) =>
              /\ Held \subseteq Held'
              /\ \A r \in Held' \ Held :
                     /\ r.url \notin Urls(Held)
                     /\ m_pc = "fetch"
                     /\ \E i \in 1..Len(site[current_url].products) :
                            LET p == site[current_url].products[i]
                            IN  /\ FirstPassing(site[current_url].products, i, r.url)
                                /\ r.title = M_Title(p)
                                /\ r.price = TextOr(p.price, PRICE_NOT_FOUND)
                                /\ r.image_url = M_ImageUrl(p)
                                /\ r.id = M_Id(r.url)]_vars

\* the call returned Ok after fetching a second page that lists /products/a
\* again, under a link with a query string and at another price, and the
\* record it returns for that URL is the one of the first page
C22_Witness ==
    /\ m_pc = "done"
    /\ m_result.status = "ok"
    /\ site[P2].products = <<pAq, pB>>
    /\ \E i \in FetchEvents, k \in FetchEvents :
           /\ i < k
           /\ m_log[i].url = S1
           /\ m_log[k].url = P2
    /\ \E r \in m_result.jackets :
           /\ r.url = BASE_URL \o <<"/products/a">>
           /\ r.price = <<"EUR349">>

----------------------------------------------------------------------------
(* C26 *)

----------------------------------------------------------------------------
(* C27 *)

\* the next-page URL of the page fetch k received
NextOf(k) == extract_next_page_url(site[m_log[k].url])

\* the page fetch k received ends the walk of its term: no next-page node, a
\* next URL equal to its own, or the 50th page
Terminal(k) ==
    \/ ~IsSome(NextOf(k))
    \/ NextOf(k) = Some(m_log[k].url)
    \/ m_log[k].page = MAX_PAGES

\* fetch i is the next link of the chain: the first page of the first term
\* when nothing was fetched before; the next URL of the page before it when
\* that page is not the end of its chain; the search URL of the next term
\* when it is
NextOfChain(i) ==
    LET k == PrevFetch(i)
    IN  /\ m_log[i].page <= MAX_PAGES
        /\ IF k = 0
           THEN /\ m_log[i].ti = 1
                /\ m_log[i].page = 1
                /\ m_log[i].url = build_search_url(search_terms[1])
           ELSE IF Terminal(k)
           THEN /\ m_log[i].ti = m_log[k].ti + 1
                /\ m_log[i].page = 1
                /\ m_log[i].url = build_search_url(search_terms[m_log[i].ti])
           ELSE /\ m_log[i].ti = m_log[k].ti
                /\ m_log[i].page = m_log[k].page + 1
                /\ m_log[i].url = Get(NextOf(k))
        /\ k # 0 =>
               m_log[i].had =
                   DOMAIN M_Page([u \in m_log[k].had |-> u], site[m_log[k].url].products)

\* C27: the fetches of a call follow the next-link chains of the search terms
\* in the configured order: each fetch is for the search URL of the first
\* term, for the next URL of the page before it, or, when that page has no
\* next-page node, links to itself or is the 50th, for the search URL of the
\* next term; the records of each fetched page are in all_jackets before the
\* next fetch; and a call that returns Ok has walked the last term to the end
\* of its chain and returns the records of that last page too.
C27_FetchesFollowChain ==
    /\ (m_log # <<>> /\ m_log[Len(m_log)].op = "fetch") => NextOfChain(Len(m_log))
    /\ (m_pc = "done" /\ m_result.status = "ok") =>
           LET k == IF m_log[Len(m_log)].op = "fetch" THEN Len(m_log)
                    ELSE PrevFetch(Len(m_log))
           IN  /\ k # 0
               /\ m_log[k].ti = Len(search_terms)
               /\ Terminal(k)
               /\ Urls(m_result.jackets) =
                      DOMAIN M_Page([u \in m_log[k].had |-> u], site[m_log[k].url].products)

\* the call returned Ok after a walk of two pages for the first term, ended
\* by a page without a next link, and a walk of the second term ended by a
\* page that links to itself
C27_Witness ==
    /\ m_pc = "done"
    /\ m_result.status = "ok"
    /\ \E i \in FetchEvents, k \in FetchEvents :
           /\ m_log[i].ti = 1 /\ m_log[i].page = 2 /\ ~IsSome(NextOf(i))
           /\ k = i + 1
           /\ m_log[k].ti = 2 /\ m_log[k].page = 1
           /\ NextOf(k) = Some(m_log[k].url)
           /\ k = Len(m_log)

----------------------------------------------------------------------------
(* C23 *)

----------------------------------------------------------------------------
(* C24 *)

\* C24: a cycle issues no operation a second time: it calls save_jacket and
\* send_notification at most once for an identity; a failed fetch and a failed
\* save are the last thing the cycle does (it is over with an error, and a
\* cycle that is over makes no further step); after a failed notification no
\* call for that identity follows in the cycle.
C24_NoRetryWithinCycle ==
    /\ [](\A j \in Jobs :
             /\ \A n \in 1..Len(jobs[j].log) :
                    /\ Cardinality(SaveCalls(jobs[j], jobs[j].log[n].id)) <= 1
                    /\ Cardinality(NotifyCalls(jobs[j], jobs[j].log[n].id)) <= 1
                    /\ (jobs[j].log[n].op = "save" /\ jobs[j].log[n].res = "err") =>
                           /\ n = Len(jobs[j].log)
                           /\ jobs[j].pc = "done"
                           /\ jobs[j].result = "err"
                    /\ (jobs[j].log[n].op = "notify"
                        /\ jobs[j].log[n].res \in {"conn", "status"}) =>
                           \A m \in (n + 1)..Len(jobs[j].log) :
                               jobs[j].log[m].id # jobs[j].log[n].id
             /\ jobs[j].search_failed =>
                    /\ jobs[j].pc = "done"
                    /\ jobs[j].result = "err"
                    /\ jobs[j].log = <<>>
                    /\ ~jobs[j].read)
    /\ [][\A j \in Jobs : jobs[j].pc = "done" => jobs'[j] = jobs[j]]_vars

\* a cycle ended on a failed save of an identity, and a cycle started after it
\* was over saved that identity
C24_Witness ==
    \E j \in Jobs, k \in Jobs :
        /\ j \in jobs[k].after
        /\ jobs[j].failed = "save"
        /\ \E n \in 1..Len(jobs[j].log) :
               /\ jobs[j].log[n].op = "save"
               /\ jobs[j].log[n].res = "err"
               /\ SaveOks(jobs[k], jobs[j].log[n].id) # {}

----------------------------------------------------------------------------
(* C28 *)

\* no other cycle is or was in progress at the same time as cycle j
NonOverlapping(j) ==
    \A k \in Jobs \ {j} :
        IF k < j THEN k \in jobs[j].after ELSE j \in jobs[k].after

\* C28: a cycle calls save_jacket at most once for an identity, though
\* existing_ids is read once and not refreshed after a save; and a call of
\* save_jacket made by a cycle that overlaps no other cycle is for an
\* identity that is not in the store.
C28_NoIdentityTwicePerCycle ==
    /\ [](\A j \in Jobs : \A n \in 1..Len(jobs[j].log) :
             Cardinality(SaveCalls(jobs[j], jobs[j].log[n].id)) <= 1)
    /\ [][\A j \in Jobs :
             ( /\ Len(jobs'[j].log) = Len(jobs[j].log) + 1
               /\ jobs'[j].log[Len(jobs'[j].log)].op = "save"
               /\ NonOverlapping(j) )
             => jobs'[j].log[Len(jobs'[j].log)].id \notin db]_vars

\* a cycle that overlapped no other one found two records it did not know,
\* one of them listed under both search terms, and saved both after one read
\* of the known ids
C28_Witness ==
    \E j \in Jobs :
        /\ NonOverlapping(j)
        /\ jobs[j].result = "ok"
        /\ Cardinality(jobs[j].found) = 2
        /\ \E a \in jobs[j].found, b \in jobs[j].found :
               /\ a.id # b.id
               /\ SaveOks(jobs[j], a.id) # {}
               /\ SaveOks(jobs[j], b.id) # {}
               /\ a.id \notin jobs[j].existing_ids
               /\ b.id \notin jobs[j].existing_ids

====
